---- MODULE Spec2Model ----
(***************************************************************************)
(* Model of the bootstrap utilities of mma-analytics-ML:                   *)
(*   scripts/setup/init_dirs.py      DirectoryInitializer and its CLI      *)
(*   src/utils/environment.py        EnvironmentValidator and its CLI      *)
(*   tests/contract/test_ufcscrape.py  the contract-test module            *)
(* Each program is a process that is started, runs its main() to the end   *)
(* and exits; the three programs have one specification each (SpecDirs,    *)
(* SpecEnv, SpecContract).  The functions that are also called outside the *)
(* programs have a specification of their calls each (SpecValidate,        *)
(* SpecDependencies, SpecReuse).  Spec runs any one of them.               *)
(***************************************************************************)
EXTENDS Integers, Sequences, FiniteSets, TLC

VARIABLES
    program,      \* which program, or caller of a function, this behaviour runs
    fs,           \* init_dirs: the filesystem at and under base_dir
    faults,       \* init_dirs: the operations the operating system refuses
    args,         \* init_dirs: the arguments of the last run of main()
    results,      \* init_dirs: the results dict of the last run
    call_log,     \* init_dirs: the calls of _create_directory of the last run
    exit_code,    \* init_dirs: the exit status of the last run
    host,         \* environment: the machine the validator looks at
    env_args,     \* environment: the arguments of the last run of main()
    env_results,  \* environment: the results dict of the last run
    env_log,      \* environment: the probes the last run called, in order
    env_exit,     \* environment: the exit status of the last run
    tree,         \* contract tests: the files of the working tree, by path
    site_packages,\* contract tests: the packages the interpreter can import
    test_module,  \* contract tests: the globals of test_ufcscrape once imported
    outcomes,     \* contract tests: the reports of the tests run so far
    receiver,     \* calls: the object the methods are called on
    called,       \* calls: the function called last and its arguments
    reply         \* calls: what the last call returned or raised

dirs_vars == <<fs, faults, args, results, call_log, exit_code>>
env_vars == <<host, env_args, env_results, env_log, env_exit>>
contract_vars == <<tree, site_packages, test_module, outcomes>>
call_vars == <<receiver, called, reply>>
vars == <<program, dirs_vars, env_vars, contract_vars, call_vars>>

(***************************************************************************)
(* Bounds of the model.                                                    *)
(***************************************************************************)
\* how many listed paths exist before the first run (their parents come with them)
MaxPre == 1
\* how many operations the operating system refuses
MaxFaults == 1
\* in how many respects the machine differs from one that passes every probe
MaxOdd == 2

(***************************************************************************)
(* init_dirs.py: paths.  A path is the sequence of its components          *)
(* relative to base_dir; "src/ingest/" is <<"src", "ingest">>.             *)
(***************************************************************************)
\* a list that names a child before its parent (the mutant of the list order)
directory_structure_child_first ==
    << <<"src", "ingest">>, <<"src">>, <<"src", "video">>, <<"src", "utils">>,
       <<"data">>, <<"data", "raw">>, <<"data", "processed">>,
       <<"data", "fixtures">>, <<"data", "fixtures", "sample_ufcstats">>,
       <<"data", "fixtures", "sample_videos">>,
       <<"tests">>, <<"tests", "contract">>, <<"tests", "integration">>,
       <<"tests", "unit">>, <<"tests", "performance">>,
       <<"scripts">>, <<"scripts", "setup">>, <<"scripts", "runners">>,
       <<"notebooks">>, <<"notebooks", "analysis">>, <<"notebooks", "templates">>,
       <<"docs">>,
       <<"models">>,
       <<"specs">>, <<"specs", "001-setup-tasks-set">>,
       <<"specs", "001-setup-tasks-set", "contracts">>,
       <<"memory">>, <<"logs">> >>

\* DirectoryInitializer._get_directory_structure
directory_structure ==
    << <<"src">>, <<"src", "ingest">>, <<"src", "video">>, <<"src", "utils">>,
       <<"data">>, <<"data", "raw">>, <<"data", "processed">>,
       <<"data", "fixtures">>, <<"data", "fixtures", "sample_ufcstats">>,
       <<"data", "fixtures", "sample_videos">>,
       <<"tests">>, <<"tests", "contract">>, <<"tests", "integration">>,
       <<"tests", "unit">>, <<"tests", "performance">>,
       <<"scripts">>, <<"scripts", "setup">>, <<"scripts", "runners">>,
       <<"notebooks">>, <<"notebooks", "analysis">>, <<"notebooks", "templates">>,
       <<"docs">>,
       <<"models">>,
       <<"specs">>, <<"specs", "001-setup-tasks-set">>,
       <<"specs", "001-setup-tasks-set", "contracts">>,
       <<"memory">>, <<"logs">> >>

\* the listed paths by their position in the list; node 0 is base_dir itself
NumDirs == Len(directory_structure)
Listed == 1..NumDirs
Nodes == 0..NumDirs

\* pathlib's parent of a listed path: the node of the path without its last
\* component (every parent of a listed path is listed, or is base_dir).  The
\* table is a sequence over the list, written out once.
ParentOf ==
    [i \in Listed |->
        LET p == directory_structure[i] IN
        IF Len(p) = 1 THEN 0
        ELSE CHOOSE j \in Listed : directory_structure[j] = SubSeq(p, 1, Len(p) - 1)]
    \o <<>>

\* whether the listed path j is the listed path i or lies below it
IsAtOrBelow(j, i) ==
    /\ Len(directory_structure[j]) >= Len(directory_structure[i])
    /\ SubSeq(directory_structure[j], 1, Len(directory_structure[i]))
           = directory_structure[i]

\* the listed paths at or below the listed path i
Subtree == [i \in Listed |-> {j \in Listed : IsAtOrBelow(j, i)}] \o <<>>

\* body(value), with value computed once however often body reads it
Bind(value, body(_)) == CHOOSE out \in {body(v) : v \in {value}} : TRUE

(***************************************************************************)
(* The filesystem.  A node is absent, a regular file or a directory; a     *)
(* directory may hold the marker file .gitkeep and may hold entries that   *)
(* are not in the list (other).  Nothing exists below a node that is not   *)
(* a directory.                                                            *)
(***************************************************************************)
AbsentNode == [kind |-> "absent", gitkeep |-> FALSE, other |-> FALSE]
FileNode == [kind |-> "file", gitkeep |-> FALSE, other |-> FALSE]
EmptyDir == [kind |-> "dir", gitkeep |-> FALSE, other |-> FALSE]

NodeValues ==
    {AbsentNode, FileNode} \cup
    {[kind |-> "dir", gitkeep |-> g, other |-> o] : g \in BOOLEAN, o \in BOOLEAN}

WellFormed(f) ==
    \A i \in Listed : f[i].kind # "absent" => f[ParentOf[i]].kind = "dir"

\* the operations of the operating system that a fault can make fail
FaultOps == {"stat", "remove", "mkdir", "touch"}
FaultPoints == FaultOps \X Listed

\* Path.exists(): the path resolves to a file or a directory
PathExists(f, i) == f[i].kind # "absent"

\* Path.is_dir()
PathIsDir(f, i) == f[i].kind = "dir"

\* any(full_path.iterdir()): the directory has at least one entry
HasEntries(f, i) ==
    \/ f[i].gitkeep
    \/ f[i].other
    \/ \E j \in Listed : ParentOf[j] = i /\ f[j].kind # "absent"

\* shutil.rmtree(full_path): the directory and everything below it
Rmtree(f, i) == [n \in Subtree[i] |-> AbsentNode] @@ f

\* Path.rmdir() of an empty directory
Rmdir(f, i) == [f EXCEPT ![i] = AbsentNode]

\* Path.unlink() of a file
Unlink(f, i) == [f EXCEPT ![i] = AbsentNode]

NoException == "none"

\* os.mkdir(path) when the parent is a directory: an existing path is
\* FileExistsError, which mkdir(exist_ok=True) swallows for a directory
MkdirSelf(f, i, flt) ==
    IF f[i].kind = "dir" THEN [fs |-> f, exc |-> NoException]
    ELSE IF f[i].kind = "file" THEN [fs |-> f, exc |-> "FileExistsError"]
    ELSE IF <<"mkdir", i>> \in flt THEN [fs |-> f, exc |-> "PermissionError"]
    ELSE [fs |-> [f EXCEPT ![i] = EmptyDir], exc |-> NoException]

\* Path.mkdir(parents=True, exist_ok=True): os.mkdir(path); on
\* FileNotFoundError (the parent is missing) the parent is made the same way
\* and os.mkdir is tried again; a file as parent is NotADirectoryError.  The
\* parent of base_dir exists.  The result is the filesystem and the exception.
RECURSIVE Mkdir(_, _, _)
Mkdir(f, i, flt) ==
    IF i = 0 THEN MkdirSelf(f, i, flt)
    ELSE IF f[ParentOf[i]].kind = "file" THEN [fs |-> f, exc |-> "NotADirectoryError"]
    ELSE IF f[ParentOf[i]].kind = "absent"
         THEN Bind(Mkdir(f, ParentOf[i], flt),
                   LAMBDA up : IF up.exc # NoException THEN up
                               ELSE MkdirSelf(up.fs, i, flt))
    ELSE MkdirSelf(f, i, flt)

\* gitkeep_path.touch(): the marker file exists afterwards
Touch(f, i) == [f EXCEPT ![i].gitkeep = TRUE]

(***************************************************************************)
(* init_dirs.py: DirectoryInitializer                                      *)
(***************************************************************************)
\* DirectoryInitializer.__init__: the fields the operations read and write
DirectoryInitializer(force) ==
    [force |-> force, created_dirs |-> <<>>, errors |-> <<>>]

\* _create_directory, lines 151-164: force mode removes the existing path
RemoveExisting(f, i, flt) ==
    IF <<"remove", i>> \in flt
    THEN [fs |-> f, exc |-> "Failed to remove existing"]
    ELSE IF PathIsDir(f, i)
         THEN IF HasEntries(f, i)
              THEN [fs |-> Rmtree(f, i), exc |-> NoException]
              ELSE [fs |-> Rmdir(f, i), exc |-> NoException]
         ELSE [fs |-> Unlink(f, i), exc |-> NoException]

\* _create_directory, lines 166-179, once the path is out of the way: mk is
\* what mkdir did to the filesystem left by the removal
MakeAndMark(self, mk, i, gone, flt) ==
    LET created == Append(self.created_dirs, directory_structure[i]) IN
    IF mk.exc = "PermissionError"
    THEN [fs |-> mk.fs, created_dirs |-> self.created_dirs,
          removed |-> gone, exc |-> "Permission denied creating"]
    ELSE IF mk.exc # NoException
    THEN [fs |-> mk.fs, created_dirs |-> self.created_dirs,
          removed |-> gone, exc |-> "OS error creating"]
    ELSE IF <<"touch", i>> \in flt
    THEN [fs |-> mk.fs, created_dirs |-> created,
          removed |-> gone, exc |-> "Permission denied creating"]
    ELSE [fs |-> Touch(mk.fs, i), created_dirs |-> created,
          removed |-> gone, exc |-> NoException]

\* _create_directory: the filesystem, self.created_dirs and the exception
\* raised, if any; removed tells whether the existing path was removed.  A
\* refused stat makes Path.exists() raise PermissionError.
create_directory(self, f, i, flt) ==
    LET same == [fs |-> f, created_dirs |-> self.created_dirs, removed |-> FALSE,
                 exc |-> NoException]
    IN
    IF <<"stat", i>> \in flt THEN [same EXCEPT !.exc = "PermissionError"]
    ELSE IF PathExists(f, i) /\ ~self.force THEN same
    ELSE Bind(IF PathExists(f, i) THEN RemoveExisting(f, i, flt)
              ELSE [fs |-> f, exc |-> NoException],
              LAMBDA rm :
                 IF rm.exc # NoException THEN [same EXCEPT !.exc = rm.exc]
                 ELSE Bind(Mkdir(rm.fs, i, flt),
                           LAMBDA mk : MakeAndMark(self, mk, i, PathExists(f, i), flt)))

\* a loop that gives up at the first failure (the mutant of NextDirectory)
NextDirectory_stop_on_error(k, exc) ==
    IF exc # NoException THEN NumDirs + 1 ELSE k + 1

\* create_directory_structure, lines 63-70: the except clause is inside the
\* loop, so the loop goes on to the next directory whatever was raised
NextDirectory(k, exc) == k + 1

\* create_directory_structure, lines 64-70: the body of the loop for the
\* directory st.next, r being what _create_directory returned or raised
LoopBody(st, r) ==
    LET k == st.next
        errs == IF r.exc = NoException THEN st.self.errors
                ELSE Append(st.self.errors,
                            [dir |-> directory_structure[k], exc |-> r.exc])
    IN [fs |-> r.fs,
        self |-> [st.self EXCEPT !.created_dirs = r.created_dirs, !.errors = errs],
        next |-> NextDirectory(k, r.exc),
        calls |-> Append(st.calls, k),
        raised |-> IF r.exc = NoException THEN st.raised ELSE st.raised \cup {k},
        removed |-> IF r.removed THEN st.removed \cup {k} ELSE st.removed]

\* create_directory_structure, lines 63-70: the loop from directory st.next
\* on.  st is the filesystem, self, the next position of the list, and the
\* log of the calls of _create_directory: the calls in order, those that
\* raised and those that removed an existing path.
RECURSIVE CreateLoop(_, _)
CreateLoop(st, flt) ==
    IF st.next > NumDirs THEN st
    ELSE CreateLoop(Bind(create_directory(st.self, st.fs, st.next, flt),
                         LAMBDA r : LoopBody(st, r)),
                    flt)

\* create_directory_structure: the filesystem and self afterwards and the
\* results dict (base_directory and execution_time_seconds are left out)
create_directory_structure(self, f, flt) ==
    LET st == CreateLoop([fs |-> f, self |-> self, next |-> 1,
                          calls |-> <<>>, raised |-> {}, removed |-> {}], flt)
    IN [fs |-> st.fs, self |-> st.self,
        calls |-> st.calls, raised |-> st.raised, removed |-> st.removed,
        exc |-> NoException,
        results |-> [created_directories |-> st.self.created_dirs,
                     errors |-> st.self.errors,
                     total_created |-> Len(st.self.created_dirs),
                     total_errors |-> Len(st.self.errors),
                     success |-> Len(st.self.errors) = 0]]

\* Python's round(num / den * 100, 1), in tenths of a percent: the nearest
\* tenth, a tie going to the even one
RoundPercentTenths(num, den) ==
    LET q == (num * 1000) \div den
        r == (num * 1000) % den
    IN IF 2 * r > den THEN q + 1
       ELSE IF 2 * r < den THEN q
       ELSE IF q % 2 = 0 THEN q ELSE q + 1

\* a check that takes every existing path for a directory (the mutant of
\* IsExistingDirectory)
IsExistingDirectory_any_kind(f, i) == PathExists(f, i)

\* validate_structure, line 193: full_path.exists() and full_path.is_dir()
IsExistingDirectory(f, i) == PathExists(f, i) /\ PathIsDir(f, i)

\* the positions of the list, in list order
ListOrder == [k \in Listed |-> k]

\* the paths at the positions ks, in the order of ks
PathsAt(ks) == [k \in 1..Len(ks) |-> directory_structure[ks[k]]]

\* validate_structure: the results dict, or the PermissionError that a
\* refused stat raises out of the loop.  completeness_percentage is in
\* tenths of a percent.
validate_structure(self, f, flt) ==
    LET required_dirs == directory_structure
        existing == SelectSeq(ListOrder, LAMBDA k : IsExistingDirectory(f, k))
        missing == SelectSeq(ListOrder, LAMBDA k : ~IsExistingDirectory(f, k))
    IN IF \E i \in Listed : <<"stat", i>> \in flt
       THEN [fs |-> f, self |-> self, calls |-> <<>>, raised |-> {}, removed |-> {},
             exc |-> "PermissionError",
             results |-> [raised |-> "PermissionError"]]
       ELSE [fs |-> f, self |-> self, calls |-> <<>>, raised |-> {}, removed |-> {},
             exc |-> NoException,
             results |->
                [required_directories |-> Len(required_dirs),
                 existing_directories |-> Len(existing),
                 missing_directories |-> Len(missing),
                 missing_directory_list |-> PathsAt(missing),
                 validation_passed |-> Len(missing) = 0,
                 completeness_percentage |->
                     RoundPercentTenths(Len(existing), Len(required_dirs))]]

\* dict.get(key, default)
DictGet(d, key, default) == IF key \in DOMAIN d THEN d[key] ELSE default

\* a dispatch that lets --force win over --validate (the mutant of RunOperation)
RunOperation_force_wins(a, self, f, flt) ==
    IF a.validate /\ ~a.force THEN validate_structure(self, f, flt)
    ELSE create_directory_structure(self, f, flt)

\* main, lines 270-275: --validate selects validate_structure, whatever
\* --force says
RunOperation(a, self, f, flt) ==
    IF a.validate THEN validate_structure(self, f, flt)
    ELSE create_directory_structure(self, f, flt)

\* an exit status that reads only the success key (the mutant of ExitStatus)
ExitStatus_success_only(op) ==
    IF op.exc # NoException THEN 1
    ELSE IF DictGet(op.results, "success", FALSE) THEN 0 ELSE 1

\* main, lines 284-294: sys.exit(0 if results.get("success",
\* results.get("validation_passed", False)) else 1); an exception that
\* reaches main exits with 1
ExitStatus(op) ==
    IF op.exc # NoException THEN 1
    ELSE IF DictGet(op.results, "success",
                    DictGet(op.results, "validation_passed", FALSE))
         THEN 0 ELSE 1

(***************************************************************************)
(* init_dirs.py: the states before the first run                           *)
(***************************************************************************)
\* the subsets of S with at most k elements
RECURSIVE SubsetsUpTo(_, _)
SubsetsUpTo(S, k) ==
    IF k = 0 THEN {{}}
    ELSE LET smaller == SubsetsUpTo(S, k - 1) IN
         smaller \cup {T \cup {x} : T \in smaller, x \in S}

\* what a listed path can be before the first run
SeedValues == NodeValues \ {AbsentNode}

\* the listed paths strictly above the listed path i
RECURSIVE ProperAncestors(_)
ProperAncestors(i) ==
    IF ParentOf[i] = 0 THEN {} ELSE {ParentOf[i]} \cup ProperAncestors(ParentOf[i])

\* the filesystem in which the paths of DOMAIN seed are what seed says, their
\* parents are directories and nothing else is listed
SeededFilesystem(seed) ==
    seed
    @@ [n \in {0} \cup UNION {ProperAncestors(s) : s \in DOMAIN seed} |-> EmptyDir]
    @@ [n \in Nodes |-> AbsentNode]

\* base_dir missing: what a first run in a new place finds
FreshFilesystem == [n \in Nodes |-> AbsentNode]

\* what a run without --force leaves in a new place when nothing is refused
PopulatedFilesystem ==
    create_directory_structure(DirectoryInitializer(FALSE), FreshFilesystem, {}).fs

\* the filesystems a first run can find: base_dir missing, base_dir a file,
\* a populated base_dir, or base_dir a directory with at most MaxPre of the
\* listed paths present
InitialFilesystems ==
    {FreshFilesystem,
     [FreshFilesystem EXCEPT ![0] = FileNode],
     PopulatedFilesystem}
    \cup {f \in {SeededFilesystem(seed) :
                    seed \in UNION {[S -> SeedValues] : S \in SubsetsUpTo(Listed, MaxPre)}} :
             WellFormed(f)}

NoArgs == [validate |-> FALSE, force |-> FALSE, started |-> FALSE]
NoResults == [none |-> TRUE]

\* A first run finds one of the initial filesystems and an operating system
\* that refuses nothing, or a new place and an operating system that refuses
\* at most MaxFaults operations (and goes on refusing them in later runs).
InitDirs ==
    /\ \/ /\ fs \in InitialFilesystems
          /\ faults = {}
       \/ /\ fs = FreshFilesystem
          /\ faults \in SubsetsUpTo(FaultPoints, MaxFaults)
    /\ args = NoArgs
    /\ results = NoResults
    /\ call_log = [calls |-> <<>>, raised |-> {}, removed |-> {}]
    /\ exit_code = -1

\* one run of `python scripts/setup/init_dirs.py [--validate] [--force]`
\* (main, lines 260-294)
InitDirsMain(validate, force) ==
    LET a == [validate |-> validate, force |-> force, started |-> TRUE]
        initializer == DirectoryInitializer(a.force)
    IN /\ program = "init_dirs"
       /\ \E op \in {RunOperation(a, initializer, fs, faults)} :
             /\ args' = a
             /\ fs' = op.fs
             /\ results' = op.results
             /\ call_log' = [calls |-> op.calls, raised |-> op.raised,
                             removed |-> op.removed]
             /\ exit_code' = ExitStatus(op)
       /\ UNCHANGED <<program, faults, env_vars, contract_vars, call_vars>>

NextDirs == \E validate \in BOOLEAN, force \in BOOLEAN : InitDirsMain(validate, force)

(***************************************************************************)
(* init_dirs.py: the claims                                                *)
(***************************************************************************)
\* the last run created directories (no --validate)
CreateRan == args.started /\ ~args.validate

\* the last run validated and validate_structure returned its results
ValidateRan == args.started /\ args.validate /\ "validation_passed" \in DOMAIN results

\* every listed path is a directory
AllDirectories == \A i \in Listed : fs[i].kind = "dir"

\* every listed path is a directory that holds .gitkeep
AllMarked == \A i \in Listed : fs[i].kind = "dir" /\ fs[i].gitkeep

\* the elements of a sequence
Range(seq) == {seq[k] : k \in DOMAIN seq}

\* C2: the directory-initializer CLI exits with 0 iff the operation
\* succeeded: creating, iff no directory raised an error; validating, iff no
\* required directory is missing; an exception that reaches main gives 1.
C2_ExitCodeZeroIffSucceeded ==
    args.started =>
        /\ exit_code \in {0, 1}
        /\ ~args.validate =>
              /\ exit_code = 0 <=> call_log.raised = {}
              /\ exit_code = 0 <=> results.success
        /\ ValidateRan =>
              /\ exit_code = 0 <=> AllDirectories
              /\ exit_code = 0 <=> results.validation_passed
        /\ "raised" \in DOMAIN results => exit_code = 1

\* C2 witness: a --validate run over a complete structure has exited with 0
C2_Witness ==
    /\ ValidateRan
    /\ results.validation_passed
    /\ exit_code = 0

\* C3: after create_directory_structure without force reports success with
\* no errors, every listed path is a directory under base_dir that holds
\* .gitkeep, and validate_structure reports validation_passed.
C3_SuccessMeansCompleteAndMarked ==
    (CreateRan /\ ~args.force /\ results.success /\ results.errors = <<>>) =>
        /\ AllMarked
        /\ validate_structure(DirectoryInitializer(FALSE), fs, faults)
               .results.validation_passed

\* C4: a failing directory does not stop create_directory_structure: every
\* directory of the list is attempted, in list order; each failing directory
\* has exactly one entry in errors; total_errors is the number of failing
\* directories; success is true iff errors is empty.
C4_FailuresDoNotStopTheLoop ==
    CreateRan =>
        /\ call_log.calls = ListOrder
        /\ \A i \in Listed :
              Cardinality({k \in DOMAIN results.errors :
                              results.errors[k].dir = directory_structure[i]})
                  = (IF i \in call_log.raised THEN 1 ELSE 0)
        /\ Len(results.errors) = Cardinality(call_log.raised)
        /\ results.total_errors = Cardinality(call_log.raised)
        /\ results.success <=> results.errors = <<>>

\* C4 witness: a directory failed and a later directory of the list was
\* still created
C4_Witness ==
    /\ CreateRan
    /\ \E i \in call_log.raised :
          \E j \in Listed :
             /\ j > i
             /\ directory_structure[j] \in Range(results.created_directories)

\* C5: after a force run without errors all 28 listed directories exist with
\* .gitkeep, nothing of what was there before is left in them, and all 28
\* are in created_directories: no child is lost to the removal of its parent.
C5_ForceRecreatesEverything ==
    (CreateRan /\ args.force /\ results.success) =>
        /\ NumDirs = 28
        /\ AllMarked
        /\ \A i \in Listed : ~fs[i].other
        /\ results.created_directories = directory_structure
        /\ results.total_created = 28

\* C5 witness: a force run without errors has removed an existing path
C5_Witness ==
    /\ CreateRan
    /\ args.force
    /\ results.success
    /\ call_log.removed # {}

\* C6: validate_structure puts each required path in exactly one of
\* existing (a directory) and missing: the counts add up to the number of
\* required paths, missing_directory_list is the paths that are absent or
\* not directories, validation_passed iff that list is empty, and
\* completeness_percentage (in tenths) is 100.0 iff validation_passed.
C6_ValidatePartitionsRequiredPaths ==
    ValidateRan =>
        /\ results.required_directories = NumDirs
        /\ results.existing_directories + results.missing_directories
               = results.required_directories
        /\ results.existing_directories
               = Cardinality({i \in Listed : fs[i].kind = "dir"})
        /\ Range(results.missing_directory_list)
               = {directory_structure[i] : i \in {j \in Listed : fs[j].kind # "dir"}}
        /\ Len(results.missing_directory_list) = results.missing_directories
        /\ results.validation_passed <=> results.missing_directory_list = <<>>
        /\ results.completeness_percentage = 1000 <=> results.validation_passed

\* C6 witness: a validation has found a file where a directory is required,
\* beside directories that exist
C6_Witness ==
    /\ ValidateRan
    /\ \E i \in Listed : fs[i].kind = "file"
    /\ results.existing_directories >= 1
    /\ results.missing_directories >= 1

\* C7: a --validate run leaves the filesystem as it is, with --force too.
C7_ValidateLeavesFilesystemUnchanged ==
    [][(args'.started /\ args'.validate) => fs' = fs]_vars

\* C7 witness: a run with --validate and --force has reported missing
\* directories and they are still missing
C7_Witness ==
    /\ ValidateRan
    /\ args.force
    /\ ~results.validation_passed
    /\ \E i \in Listed : fs[i].kind = "absent"

(***************************************************************************)
(* environment.py: the machine.  A machine is described by the interpreter *)
(* version, by what importlib.util.find_spec does for each import name     *)
(* (found, none: returns None, raise: raises), by the GPU as torch sees it *)
(* (none: no driver; unavailable; available; error: torch.cuda raises) and *)
(* by the available memory and the free disk space in hundredths of a GB   *)
(* (1e7 bytes).                                                            *)
(***************************************************************************)
\* validate_dependencies, lines 87-93: the default required_packages
DefaultPackages ==
    <<"torch", "torchvision", "torchaudio", "pandas", "numpy", "sklearn",
      "cv2", "matplotlib", "seaborn", "requests", "beautifulsoup4",
      "jupyter", "pytest", "psutil">>

\* _get_import_name: the import name of a package (the names of the model
\* are lower case already)
get_import_name(package_name) ==
    LET mapping == [opencv |-> "cv2", pytorch |-> "torch",
                    torchvision |-> "torchvision", torchaudio |-> "torchaudio"]
                   @@ ("opencv-python" :> "cv2") @@ ("beautifulsoup4" :> "bs4")
                   @@ ("scikit-learn" :> "sklearn")
    IN DictGet(mapping, package_name, package_name)

\* the import names the validator looks up
ImportNames == {get_import_name(DefaultPackages[k]) : k \in DOMAIN DefaultPackages}

\* a machine that passes every probe
HealthyHost ==
    [python |-> <<3, 12, 1>>, cuda |-> "available", mem |-> 800, disk |-> 2000,
     find_spec |-> [m \in ImportNames |-> "found"] @@ <<>>]

\* the machines that differ from h in one more respect
OneOdder(h) ==
    {[h EXCEPT !.python = v] : v \in {<<3, 10, 12>>, <<3, 11, 0>>}}
    \cup {[h EXCEPT !.cuda = v] : v \in {"none", "unavailable", "error"}}
    \cup {[h EXCEPT !.mem = v] : v \in {794, 796}}
    \cup {[h EXCEPT !.disk = v] : v \in {1994, 1996}}
    \cup {[h EXCEPT !.find_spec[m] = v] : m \in ImportNames, v \in {"none", "raise"}}

\* the machines that differ from the healthy one in at most k respects
RECURSIVE HostsUpTo(_)
HostsUpTo(k) ==
    IF k = 0 THEN {HealthyHost}
    ELSE LET nearer == HostsUpTo(k - 1) IN
         nearer \cup UNION {OneOdder(h) : h \in nearer}

(***************************************************************************)
(* environment.py: EnvironmentValidator.  A probe gives the exception it   *)
(* raised, if any, and what it returned: a dict, or with format "json" the *)
(* string json.dumps made of it.  A message is the sequence of its parts;  *)
(* None is "None"; sizes in GB are in tenths.                              *)
(***************************************************************************)
\* Python's comparison of tuples: at the first difference, and a proper
\* prefix is the smaller one
RECURSIVE TupleLess(_, _)
TupleLess(a, b) ==
    IF Len(b) = 0 THEN FALSE
    ELSE IF Len(a) = 0 THEN TRUE
    ELSE IF Head(a) # Head(b) THEN Head(a) < Head(b)
    ELSE TupleLess(Tail(a), Tail(b))

\* json.dumps(result, indent=2): a string, no dict any more
JsonDumps(result) == [type |-> "str", value |-> result]

\* isinstance(result, dict)
IsDict(returned) == returned.type = "dict"

\* lines 80-82 and alike: if format == "json": return json.dumps(result)
Returned(result, format) ==
    IF format = "json" THEN JsonDumps(result)
    ELSE [type |-> "dict", value |-> result]

\* Python's round(x, 1) of a size given in hundredths, in tenths
RoundTenths(hundredths) ==
    LET q == hundredths \div 10
        r == hundredths % 10
    IN IF r > 5 THEN q + 1
       ELSE IF r < 5 THEN q
       ELSE IF q % 2 = 0 THEN q ELSE q + 1

\* validate_python_version with the default min_version (3, 11)
validate_python_version(h, format) ==
    LET current_version == h.python
        min_version == <<3, 11>>
        is_valid == ~TupleLess(current_version, min_version)
        result == [python_version |-> current_version,
                   min_required |-> <<min_version[1], min_version[2], 0>>,
                   is_valid |-> is_valid,
                   platform |-> "platform",
                   architecture |-> "machine"]
    IN [exc |-> NoException,
        ret |-> Returned(
            IF ~is_valid
            THEN result @@ [message |-> <<"Python or higher required">>,
                            recommendation |-> "Please upgrade Python"]
            ELSE result @@ [message |-> <<"Python version meets requirements">>],
            format)]

\* what importlib.util.find_spec does for an import name on the machine h
FindSpec(h, import_name) == DictGet(h.find_spec, import_name, "none")

\* validate_dependencies: a package is installed when find_spec returns a
\* spec, missing when it returns None or raises; an empty list divides by 0
validate_dependencies(required_packages, h, format) ==
    LET IsInstalled(package) == FindSpec(h, get_import_name(package)) = "found"
        installed == SelectSeq(required_packages, IsInstalled)
        missing == SelectSeq(required_packages, LAMBDA package : ~IsInstalled(package))
        total == Len(required_packages)
    IN IF total = 0
       THEN [exc |-> "ZeroDivisionError", ret |-> JsonDumps([none |-> TRUE])]
       ELSE [exc |-> NoException,
             ret |-> Returned([dependencies |-> <<>>,
                               installed |-> installed,
                               missing |-> missing,
                               total_packages |-> total,
                               installed_count |-> Len(installed),
                               missing_count |-> Len(missing),
                               success_rate |-> RoundPercentTenths(Len(installed), total)],
                              format)]

\* validate_gpu: import torch fails when torch is not found; torch.cuda
\* raises on the machine whose cuda is "error", at get_device_name;
\* nvidia-smi answers when there is a driver
validate_gpu(h, format) ==
    LET result == [gpu_available |-> FALSE,
                   cuda_available |-> FALSE,
                   gpu_name |-> "None",
                   gpu_memory_total_gb |-> 0,
                   gpu_memory_available_gb |-> 0,
                   cuda_version |-> "None",
                   pytorch_cuda_available |-> FALSE,
                   status |-> "fail",
                   message |-> <<"GPU validation failed">>]
        after_torch ==
            IF FindSpec(h, "torch") = "none"
            THEN [result EXCEPT !.message = <<"PyTorch not available for GPU validation">>]
            ELSE IF FindSpec(h, "torch") = "raise"
            THEN [result EXCEPT !.message = <<"GPU validation error">>]
            ELSE IF h.cuda = "available"
            THEN [result EXCEPT !.pytorch_cuda_available = TRUE,
                                !.gpu_available = TRUE,
                                !.cuda_available = TRUE,
                                !.gpu_name = "GPU",
                                !.gpu_memory_total_gb = 240,
                                !.status = "pass",
                                !.message = <<"GPU detected">>]
            ELSE IF h.cuda = "error"
            THEN [result EXCEPT !.pytorch_cuda_available = TRUE,
                                !.gpu_available = TRUE,
                                !.cuda_available = TRUE,
                                !.message = <<"GPU validation error">>]
            ELSE [result EXCEPT !.message = <<"No CUDA-enabled GPU detected by PyTorch">>]
        after_smi ==
            IF h.cuda # "none" THEN [after_torch EXCEPT !.cuda_version = "cuda"]
            ELSE after_torch
    IN [exc |-> NoException, ret |-> Returned(after_smi, format)]

\* validate_system_resources (the totals and the percentages are left out):
\* import psutil raises when psutil is not found
validate_system_resources(h, format) ==
    LET result == [system_memory_available_gb |-> RoundTenths(h.mem),
                   disk_free_gb |-> RoundTenths(h.disk),
                   status |-> "pass",
                   message |-> <<"System resources validation completed">>]
        after_memory ==
            IF result.system_memory_available_gb < 80
            THEN [result EXCEPT !.status = "warn",
                                !.message = <<"Low system memory">>]
            ELSE result
        after_disk ==
            IF after_memory.disk_free_gb < 200
            THEN [after_memory EXCEPT
                     !.status = IF after_memory.status = "pass" THEN "warn" ELSE "fail",
                     !.message = Append(after_memory.message, "Low disk space")]
            ELSE after_memory
    IN IF FindSpec(h, "psutil") # "found"
       THEN [exc |-> "ImportError", ret |-> JsonDumps([none |-> TRUE])]
       ELSE [exc |-> NoException, ret |-> Returned(after_disk, format)]

(***************************************************************************)
(* environment.py: main                                                    *)
(***************************************************************************)
\* main, lines 265-275: the checks in the order main makes them
ProbeOrder == <<"python", "dependencies", "gpu", "system">>
Probes == Range(ProbeOrder)

\* main, lines 261-262: no flag at all selects every check
Selected(flags) == IF flags = {} THEN Probes ELSE flags

\* the call main makes for one check
RunProbe(name, h, format) ==
    CASE name = "python" -> validate_python_version(h, format)
      [] name = "dependencies" -> validate_dependencies(DefaultPackages, h, format)
      [] name = "gpu" -> validate_gpu(h, format)
      [] name = "system" -> validate_system_resources(h, format)

\* main, lines 265-275: the checks from position k of ProbeOrder on; st is
\* the results dict, the log of the probes called and the exception raised
RECURSIVE RunChecks(_, _, _, _, _)
RunChecks(st, k, selected, h, format) ==
    IF k > Len(ProbeOrder) \/ st.exc # NoException THEN st
    ELSE IF ProbeOrder[k] \notin selected
    THEN RunChecks(st, k + 1, selected, h, format)
    ELSE Bind(RunProbe(ProbeOrder[k], h, format),
              LAMBDA r :
                 RunChecks([results |-> IF r.exc = NoException
                                        THEN st.results @@ (ProbeOrder[k] :> r.ret)
                                        ELSE st.results,
                            log |-> Append(st.log, ProbeOrder[k]),
                            exc |-> r.exc],
                           k + 1, selected, h, format))

\* main, lines 290-294: result.get("is_valid", result.get("success", True))
\* if isinstance(result, dict) else True
ResultOk(returned) ==
    IF IsDict(returned)
    THEN DictGet(returned.value, "is_valid", DictGet(returned.value, "success", TRUE))
    ELSE TRUE

\* main, lines 289-306: sys.exit(0 if success else 1); an exception that
\* reaches main exits with 1
EnvExitStatus(st) ==
    IF st.exc # NoException THEN 1
    ELSE IF \A key \in DOMAIN st.results : ResultOk(st.results[key]) THEN 0
    ELSE 1

NoEnvArgs == [flags |-> {}, format |-> "dict", started |-> FALSE]

InitEnv ==
    /\ host \in HostsUpTo(MaxOdd)
    /\ env_args = NoEnvArgs
    /\ env_results = <<>>
    /\ env_log = <<>>
    /\ env_exit = -1

\* the run of `python -m src.utils.environment [--python] [--dependencies]
\* [--gpu] [--system] [--format dict|json]` (main, lines 254-306); the
\* process runs main once, and nothing of a run outlives it
EnvMain(flags, format) ==
    /\ program = "environment"
    /\ ~env_args.started
    /\ \E st \in {RunChecks([results |-> <<>>, log |-> <<>>, exc |-> NoException],
                            1, Selected(flags), host, format)} :
          /\ env_args' = [flags |-> flags, format |-> format, started |-> TRUE]
          /\ env_results' = st.results
          /\ env_log' = st.log
          /\ env_exit' = EnvExitStatus(st)
    /\ UNCHANGED <<program, host, dirs_vars, contract_vars, call_vars>>

NextEnv == \E flags \in SUBSET Probes, format \in {"dict", "json"} : EnvMain(flags, format)

(***************************************************************************)
(* environment.py: the claims                                              *)
(***************************************************************************)
\* the dict a probe made, whether it was returned as it is or as JSON text
RecordOf(returned) == returned.value

\* a probe has succeeded unless its record says is_valid false or status
\* "fail" or, for the dependency probe, names a missing package
ProbeSucceeded(record) ==
    /\ DictGet(record, "is_valid", TRUE)
    /\ DictGet(record, "status", "pass") # "fail"
    /\ DictGet(record, "missing", <<>>) = <<>>

\* C1: the environment-validator CLI exits with 0 iff every requested probe
\* succeeded, for every choice of flags and for both formats.
C1_ExitZeroIffEveryProbeSucceeded ==
    env_args.started =>
        (env_exit = 0 <=>
            \A name \in Selected(env_args.flags) :
                /\ name \in DOMAIN env_results
                /\ ProbeSucceeded(RecordOf(env_results[name])))

\* C8: each of the four probes returns a flat record with a status or
\* is_valid field and a message field, on every outcome.
C8_EveryProbeRecordHasStatusAndMessage ==
    \A name \in DOMAIN env_results :
        LET record == RecordOf(env_results[name]) IN
        /\ "status" \in DOMAIN record \/ "is_valid" \in DOMAIN record
        /\ "message" \in DOMAIN record

\* the place of a probe in the order python, dependencies, gpu, system
PlaceOf(name) ==
    CASE name = "python" -> 1
      [] name = "dependencies" -> 2
      [] name = "gpu" -> 3
      [] name = "system" -> 4

\* C16: without any of --python/--dependencies/--gpu/--system the CLI runs
\* all four probes, otherwise exactly the probes whose flags are given; the
\* probes run in the order python, dependencies, gpu, system, and the
\* results map has one key per probe run.
C16_RequestedProbesRunInOrderAndAreRecorded ==
    env_args.started =>
        /\ Range(env_log) =
               IF env_args.flags = {}
               THEN {"python", "dependencies", "gpu", "system"}
               ELSE env_args.flags
        /\ \A j, k \in DOMAIN env_log :
               j < k => PlaceOf(env_log[j]) < PlaceOf(env_log[k])
        /\ DOMAIN env_results = Range(env_log)

\* C17: validate_system_resources reports "pass" iff the available memory
\* is at least 8 GB and the free disk space at least 20 GB, "warn" iff
\* exactly one of them is below its threshold and "fail" iff both are; the
\* message names each resource that is below its threshold.
C17_StatusFollowsTheTwoThresholds ==
    "system" \in DOMAIN env_results =>
        LET record == RecordOf(env_results["system"])
            low_memory == host.mem < 8 * 100
            low_disk == host.disk < 20 * 100
        IN /\ record.status = "pass" <=> (~low_memory /\ ~low_disk)
           /\ record.status = "warn" <=> (low_memory # low_disk)
           /\ record.status = "fail" <=> (low_memory /\ low_disk)
           /\ low_memory <=> "Low system memory" \in Range(record.message)
           /\ low_disk <=> "Low disk space" \in Range(record.message)

(***************************************************************************)
(* tests/contract/test_ufcscrape.py: JSON values.  A value carries its     *)
(* JSON type, and its content under a name of that type: b for a boolean,  *)
(* n for a number, s for a string, a for an array, o for an object.        *)
(* Numbers are kept in hundredths, so that 2.5 is 250 and the integer 50   *)
(* is 5000; an object is a function from its keys.                         *)
(***************************************************************************)
None == [t |-> "none"]
JBool(b) == [t |-> "boolean", b |-> b]
JInt(n) == [t |-> "integer", n |-> n * 100]
JNum(hundredths) == [t |-> "number", n |-> hundredths]
JStr(s) == [t |-> "string", s |-> s]
JArr(items) == [t |-> "array", a |-> items]
JObj(members) == [t |-> "object", o |-> members]

IsNumber(value) == value.t \in {"integer", "number"}

\* the "type" keyword: a float without a fraction counts as an integer
TypeMatches(instance, type) ==
    CASE type = "integer" ->
             \/ instance.t = "integer"
             \/ instance.t = "number" /\ instance.n % 100 = 0
      [] type = "number" -> IsNumber(instance)
      [] OTHER -> instance.t = type

\* a minimum that rejects the bound itself (the mutant of AboveMinimum)
AboveMinimum_exclusive(instance, bound) == instance.n > bound.n

\* the "minimum" keyword
AboveMinimum(instance, bound) == instance.n >= bound.n

\* an exclusive minimum that accepts the bound itself (the mutant of
\* AboveExclusiveMinimum)
AboveExclusiveMinimum_inclusive(instance, bound) == instance.n >= bound.n

\* the "exclusiveMinimum" keyword
AboveExclusiveMinimum(instance, bound) == instance.n > bound.n

\* the "maximum" keyword
BelowMaximum(instance, bound) == instance.n <= bound.n

\* an enum that accepts every string (the mutant of InEnum)
InEnum_any_string(instance, values) == instance.t = "string"

\* the "enum" keyword
InEnum(instance, values) == \E k \in DOMAIN values.a : values.a[k] = instance

\* a required list of which only the first name counts (the mutant of
\* HasRequired)
HasRequired_first_only(instance, names) ==
    names.a # <<>> => names.a[1].s \in DOMAIN instance.o

\* the "required" keyword
HasRequired(instance, names) ==
    \A k \in DOMAIN names.a : names.a[k].s \in DOMAIN instance.o

\* jsonschema.validate(instance, schema) without a format_checker: TRUE when
\* it returns, FALSE when it raises ValidationError.  The keywords are the
\* ones the schema document uses; "format" is an annotation only, because
\* the call passes no format_checker.
RECURSIVE IsValid(_, _)
IsValid(instance, schema) ==
    LET kw == schema.o
        Has(k) == k \in DOMAIN kw
    IN /\ Has("type") => TypeMatches(instance, kw.type.s)
       /\ Has("enum") => InEnum(instance, kw.enum)
       /\ (Has("minimum") /\ IsNumber(instance)) =>
              AboveMinimum(instance, kw.minimum)
       /\ (Has("exclusiveMinimum") /\ IsNumber(instance)) =>
              AboveExclusiveMinimum(instance, kw.exclusiveMinimum)
       /\ (Has("maximum") /\ IsNumber(instance)) =>
              BelowMaximum(instance, kw.maximum)
       /\ (Has("required") /\ instance.t = "object") =>
              HasRequired(instance, kw.required)
       /\ (Has("properties") /\ instance.t = "object") =>
              \A name \in DOMAIN kw.properties.o :
                  name \in DOMAIN instance.o =>
                      IsValid(instance.o[name], kw.properties.o[name])
       /\ (Has("items") /\ instance.t = "array") =>
              \A k \in DOMAIN instance.a : IsValid(instance.a[k], kw.items)

(***************************************************************************)
(* The schema document ufcscrape.json, as the specification's data model   *)
(* describes it: the request and the result of a scrape job.               *)
(***************************************************************************)
StringSchema == JObj([type |-> JStr("string")])
DateSchema == JObj([type |-> JStr("string"), format |-> JStr("date")])
DateTimeSchema == JObj([type |-> JStr("string"), format |-> JStr("date-time")])
CountSchema == JObj([type |-> JStr("integer"), minimum |-> JInt(0)])
RateSchema == JObj([type |-> JStr("number"), minimum |-> JInt(0)])

Required(names) == JArr([k \in DOMAIN names |-> JStr(names[k])] \o <<>>)

ScrapeRequest ==
    JObj([type |-> JStr("object"),
          properties |-> JObj([
              scrape_type |-> JObj([type |-> JStr("string"),
                                    enum |-> JArr(<<JStr("fighters"),
                                                    JStr("bouts"),
                                                    JStr("events"),
                                                    JStr("all")>>)]),
              output_dir |-> StringSchema,
              date_range |-> JObj([type |-> JStr("object"),
                                   properties |-> JObj([
                                       start_date |-> DateSchema,
                                       end_date |-> DateSchema])]),
              batch_size |-> JObj([type |-> JStr("integer"),
                                   minimum |-> JInt(1),
                                   maximum |-> JInt(1000)]),
              delay_seconds |-> JObj([type |-> JStr("number"),
                                      exclusiveMinimum |-> JNum(0),
                                      maximum |-> JNum(500)])]),
          required |-> Required(<<"scrape_type", "output_dir">>)])

OutputFile ==
    JObj([type |-> JStr("object"),
          properties |-> JObj([filename |-> StringSchema,
                               file_path |-> StringSchema,
                               record_count |-> CountSchema,
                               file_size_bytes |-> CountSchema]),
          required |-> Required(<<"filename", "file_path", "record_count",
                                  "file_size_bytes">>)])

PerformanceMetrics ==
    JObj([type |-> JStr("object"),
          properties |-> JObj([duration_seconds |-> RateSchema,
                               requests_per_second |-> RateSchema,
                               records_per_second |-> RateSchema]),
          required |-> Required(<<"duration_seconds", "requests_per_second",
                                  "records_per_second">>)])

ErrorEntry ==
    JObj([type |-> JStr("object"),
          properties |-> JObj([error_type |-> StringSchema,
                               error_message |-> StringSchema,
                               timestamp |-> DateTimeSchema]),
          required |-> Required(<<"error_type", "error_message",
                                  "timestamp">>)])

ScrapeResult ==
    JObj([type |-> JStr("object"),
          properties |-> JObj([
              success |-> JObj([type |-> JStr("boolean")]),
              records_processed |-> CountSchema,
              output_files |-> JObj([type |-> JStr("array"),
                                     items |-> OutputFile]),
              performance_metrics |-> PerformanceMetrics,
              errors |-> JObj([type |-> JStr("array"),
                               items |-> ErrorEntry])]),
          required |-> Required(<<"success", "records_processed">>)])

ContractDocument == JObj([input |-> ScrapeRequest, output |-> ScrapeResult])

(***************************************************************************)
(* tests/contract/test_ufcscrape.py: what importing the module does.       *)
(* Paths are sequences of components below the project root.               *)
(***************************************************************************)
\* the path of the test module, __file__
TestFile == <<"tests", "contract", "test_ufcscrape.py">>

\* Path.parent
Parent(path) == SubSeq(path, 1, Len(path) - 1)

\* the path the module's docstring names
DocumentedContractPath ==
    <<"specs", "001-setup-tasks-set", "contracts", "ufcscrape.json">>

\* the path the module computes
CONTRACT_PATH ==
    Parent(Parent(TestFile))
        \o <<"specs", "001-setup-tasks-set", "contracts", "ufcscrape.json">>

\* a file is a JSON document or text that json.load cannot parse
JsonFile(value) == [kind |-> "json", value |-> value]
TextFile == [kind |-> "text"]
EmptyTree == <<>>

\* Path.exists
FileExists(files, path) == path \in DOMAIN files

NotImported == [state |-> "not_imported"]

\* the module-level statements of lines 23-36
ImportTestModule(files, packages) ==
    LET available == "jsonschema" \in packages IN
    IF FileExists(files, CONTRACT_PATH)
    THEN IF files[CONTRACT_PATH].kind = "json"
         THEN [state |-> "imported",
               CONTRACT_AVAILABLE |-> available,
               CONTRACT_SCHEMA |-> files[CONTRACT_PATH].value]
         ELSE [state |-> "error", exc |-> "JSONDecodeError"]
    ELSE [state |-> "imported",
          CONTRACT_AVAILABLE |-> available,
          CONTRACT_SCHEMA |-> None]

(***************************************************************************)
(* The statements the tests are made of.  A statement yields the exception *)
(* it raises, or NoException.                                              *)
(***************************************************************************)
Quiet == [exc |-> NoException, msg |-> ""]
Raised(exc, msg) == [exc |-> exc, msg |-> msg]

\* an expression yields a value or raises
Value(v) == [exc |-> NoException, val |-> v]
Throws(exc) == [exc |-> exc, val |-> None]

\* container[key]
GetItem(container, key) ==
    IF container.exc # NoException THEN container
    ELSE IF container.val.t # "object" THEN Throws("TypeError")
    ELSE IF key \in DOMAIN container.val.o
         THEN Value(container.val.o[key])
         ELSE Throws("KeyError")

\* assert key in container, msg
AssertIn(key, container, msg) ==
    IF container.exc # NoException THEN Raised(container.exc, "")
    ELSE IF container.val.t # "object" THEN Raised("TypeError", "")
    ELSE IF key \in DOMAIN container.val.o THEN Quiet
    ELSE Raised("AssertionError", msg)

\* assert condition, msg
AssertTrue(condition, msg) ==
    IF condition THEN Quiet ELSE Raised("AssertionError", msg)

\* try: validate(instance, schema)
\* except ValidationError: pytest.fail(msg)
ExpectValid(instance, schema, msg) ==
    IF schema.exc # NoException THEN Raised(schema.exc, "")
    ELSE IF IsValid(instance, schema.val) THEN Quiet
    ELSE Raised("Failed", msg)

\* with pytest.raises(ValidationError): validate(instance, schema)
ExpectInvalid(instance, schema) ==
    IF schema.exc # NoException THEN Raised(schema.exc, "")
    ELSE IF IsValid(instance, schema.val)
         THEN Raised("Failed", "DID NOT RAISE ValidationError")
    ELSE Quiet

\* the first statement that raises ends the test
RECURSIVE FirstRaised(_)
FirstRaised(statements) ==
    IF statements = <<>> THEN Quiet
    ELSE IF Head(statements).exc # NoException THEN Head(statements)
    ELSE FirstRaised(Tail(statements))

\* what pytest reports for a test
Report(statements) ==
    LET raised == FirstRaised(statements) IN
    [outcome |-> IF raised.exc = NoException THEN "passed" ELSE "failed",
     exc |-> raised.exc,
     msg |-> raised.msg]

\* if not CONTRACT_AVAILABLE: pytest.skip("jsonschema not available")
Skipped ==
    [outcome |-> "skipped", exc |-> "Skipped", msg |-> "jsonschema not available"]

SkipUnlessAvailable(mod, report) ==
    IF mod.CONTRACT_AVAILABLE THEN report ELSE Skipped

(***************************************************************************)
(* The tests of class TestUFCStatsContract.                                *)
(***************************************************************************)
Request(members) ==
    JObj([scrape_type |-> JStr("fighters"), output_dir |-> JStr("/tmp/test")]
             @@ members)

test_contract_schema_exists(mod, files) ==
    Report(<<AssertTrue(FileExists(files, CONTRACT_PATH),
                        "Contract schema not found"),
             AssertTrue(mod.CONTRACT_SCHEMA.t # "none",
                        "Contract schema could not be loaded")>>)

test_contract_schema_structure(mod, files) ==
    LET schema == Value(mod.CONTRACT_SCHEMA)
        input_schema == GetItem(schema, "input")
        output_schema == GetItem(schema, "output")
    IN SkipUnlessAvailable(mod, Report(<<
           AssertIn("input", schema, "Missing required property"),
           AssertIn("output", schema, "Missing required property"),
           Raised(input_schema.exc, ""),
           AssertIn("properties", input_schema,
                    "Input schema missing properties"),
           AssertIn("scrape_type", GetItem(input_schema, "properties"),
                    "Missing scrape_type in input"),
           AssertIn("output_dir", GetItem(input_schema, "properties"),
                    "Missing output_dir in input"),
           Raised(output_schema.exc, ""),
           AssertIn("properties", output_schema,
                    "Output schema missing properties"),
           AssertIn("success", GetItem(output_schema, "properties"),
                    "Missing success in output"),
           AssertIn("records_processed", GetItem(output_schema, "properties"),
                    "Missing records_processed in output")>>))

test_input_validation_scrape_type_enum(mod, files) ==
    LET input_schema == GetItem(Value(mod.CONTRACT_SCHEMA), "input")
        valid_scrape_types == <<"fighters", "bouts", "events", "all">>
        input_data(scrape_type) ==
            JObj([scrape_type |-> JStr(scrape_type),
                  output_dir |-> JStr("/tmp/test")])
    IN SkipUnlessAvailable(mod, Report(
           [k \in DOMAIN valid_scrape_types |->
               ExpectValid(input_data(valid_scrape_types[k]), input_schema,
                           "Valid scrape_type failed validation")]
           \o <<ExpectInvalid(input_data("invalid_type"), input_schema)>>))

test_input_validation_required_fields(mod, files) ==
    LET input_schema == GetItem(Value(mod.CONTRACT_SCHEMA), "input")
        invalid_input == JObj([scrape_type |-> JStr("fighters")])
    IN SkipUnlessAvailable(mod, Report(
           <<ExpectInvalid(invalid_input, input_schema)>>))

test_input_validation_date_range(mod, files) ==
    LET input_schema == GetItem(Value(mod.CONTRACT_SCHEMA), "input")
        date_range(start_date, end_date) ==
            [date_range |-> JObj([start_date |-> JStr(start_date),
                                  end_date |-> JStr(end_date)])]
    IN SkipUnlessAvailable(mod, Report(
           <<ExpectValid(Request(date_range("2024-01-01", "2024-12-31")),
                         input_schema, "Valid date range failed validation"),
             ExpectInvalid(Request(date_range("invalid-date", "2024-12-31")),
                           input_schema)>>))

test_output_schema_validation(mod, files) ==
    LET output_schema == GetItem(Value(mod.CONTRACT_SCHEMA), "output")
        performance_metrics ==
            JObj([duration_seconds |-> JNum(6000),
                  requests_per_second |-> JNum(250),
                  records_per_second |-> JNum(167)])
        valid_output ==
            JObj([success |-> JBool(TRUE),
                  records_processed |-> JInt(100),
                  output_files |-> JArr(<<
                      JObj([filename |-> JStr("test.json"),
                            file_path |-> JStr("/tmp/test.json"),
                            record_count |-> JInt(100),
                            file_size_bytes |-> JInt(1024)])>>),
                  performance_metrics |-> performance_metrics])
        invalid_output ==
            JObj([success |-> JBool(TRUE),
                  output_files |-> JArr(<<>>),
                  performance_metrics |-> performance_metrics])
    IN SkipUnlessAvailable(mod, Report(
           <<ExpectValid(valid_output, output_schema,
                         "Valid output failed validation"),
             ExpectInvalid(invalid_output, output_schema)>>))

test_output_files_validation(mod, files) ==
    LET output_schema == GetItem(Value(mod.CONTRACT_SCHEMA), "output")
        files_schema ==
            GetItem(GetItem(GetItem(output_schema, "properties"),
                            "output_files"), "items")
        valid_file_item ==
            JObj([filename |-> JStr("fighters.json"),
                  file_path |-> JStr("/tmp/fighters.json"),
                  record_count |-> JInt(50),
                  file_size_bytes |-> JInt(2048)])
        invalid_file_item ==
            JObj([filename |-> JStr("fighters.json"),
                  record_count |-> JInt(50),
                  file_size_bytes |-> JInt(2048)])
    IN SkipUnlessAvailable(mod, Report(
           <<ExpectValid(valid_file_item, files_schema,
                         "Valid output file item failed validation"),
             ExpectInvalid(invalid_file_item, files_schema)>>))

test_performance_metrics_validation(mod, files) ==
    LET output_schema == GetItem(Value(mod.CONTRACT_SCHEMA), "output")
        metrics_schema ==
            GetItem(GetItem(output_schema, "properties"),
                    "performance_metrics")
        metrics(duration_seconds) ==
            JObj([duration_seconds |-> JNum(duration_seconds),
                  requests_per_second |-> JNum(180),
                  records_per_second |-> JNum(90)])
    IN SkipUnlessAvailable(mod, Report(
           <<ExpectValid(metrics(12050), metrics_schema,
                         "Valid performance metrics failed validation"),
             ExpectInvalid(metrics(-100), metrics_schema)>>))

test_errors_array_validation(mod, files) ==
    LET output_schema == GetItem(Value(mod.CONTRACT_SCHEMA), "output")
        errors_schema ==
            GetItem(GetItem(GetItem(output_schema, "properties"),
                            "errors"), "items")
        valid_error ==
            JObj([error_type |-> JStr("NetworkError"),
                  error_message |-> JStr("Connection timeout"),
                  timestamp |-> JStr("2024-01-01T12:00:00")])
        invalid_error ==
            JObj([error_type |-> JStr("NetworkError"),
                  error_message |-> JStr("Connection timeout")])
    IN SkipUnlessAvailable(mod, Report(
           <<ExpectValid(valid_error, errors_schema,
                         "Valid error item failed validation"),
             ExpectInvalid(invalid_error, errors_schema)>>))

test_batch_size_constraints(mod, files) ==
    LET input_schema == GetItem(Value(mod.CONTRACT_SCHEMA), "input")
        valid_sizes == <<1, 50, 500, 1000>>
        invalid_sizes == <<0, -1, 1001>>
        input_data(batch_size) == Request([batch_size |-> JInt(batch_size)])
    IN SkipUnlessAvailable(mod, Report(
           [k \in DOMAIN valid_sizes |->
               ExpectValid(input_data(valid_sizes[k]), input_schema,
                           "Valid batch_size failed validation")]
           \o [k \in DOMAIN invalid_sizes |->
                  ExpectInvalid(input_data(invalid_sizes[k]), input_schema)]))

test_delay_seconds_constraints(mod, files) ==
    LET input_schema == GetItem(Value(mod.CONTRACT_SCHEMA), "input")
        valid_delays == <<10, 100, 250, 500>>
        invalid_delays == <<0, -10, 510>>
        input_data(delay) == Request([delay_seconds |-> JNum(delay)])
    IN SkipUnlessAvailable(mod, Report(
           [k \in DOMAIN valid_delays |->
               ExpectValid(input_data(valid_delays[k]), input_schema,
                           "Valid delay_seconds failed validation")]
           \o [k \in DOMAIN invalid_delays |->
                  ExpectInvalid(input_data(invalid_delays[k]), input_schema)]))

\* the tests in the order pytest collects them: the order of definition
TestNames ==
    <<"test_contract_schema_exists",
      "test_contract_schema_structure",
      "test_input_validation_scrape_type_enum",
      "test_input_validation_required_fields",
      "test_input_validation_date_range",
      "test_output_schema_validation",
      "test_output_files_validation",
      "test_performance_metrics_validation",
      "test_errors_array_validation",
      "test_batch_size_constraints",
      "test_delay_seconds_constraints">>

RunTestFunction(name, mod, files) ==
    CASE name = "test_contract_schema_exists" ->
             test_contract_schema_exists(mod, files)
      [] name = "test_contract_schema_structure" ->
             test_contract_schema_structure(mod, files)
      [] name = "test_input_validation_scrape_type_enum" ->
             test_input_validation_scrape_type_enum(mod, files)
      [] name = "test_input_validation_required_fields" ->
             test_input_validation_required_fields(mod, files)
      [] name = "test_input_validation_date_range" ->
             test_input_validation_date_range(mod, files)
      [] name = "test_output_schema_validation" ->
             test_output_schema_validation(mod, files)
      [] name = "test_output_files_validation" ->
             test_output_files_validation(mod, files)
      [] name = "test_performance_metrics_validation" ->
             test_performance_metrics_validation(mod, files)
      [] name = "test_errors_array_validation" ->
             test_errors_array_validation(mod, files)
      [] name = "test_batch_size_constraints" ->
             test_batch_size_constraints(mod, files)
      [] name = "test_delay_seconds_constraints" ->
             test_delay_seconds_constraints(mod, files)

(***************************************************************************)
(* A pytest session over the module: the import, then the tests in order.  *)
(***************************************************************************)
\* a JSON document that is no contract
OtherDocument == JObj([title |-> JStr("UFCStats scraping")])

FileContents == {JsonFile(ContractDocument), JsonFile(OtherDocument), TextFile}

\* the places a schema document may lie at
SchemaLocations == {DocumentedContractPath, CONTRACT_PATH}

Trees == UNION {[where -> FileContents] : where \in SUBSET SchemaLocations}

InitContract ==
    /\ tree \in Trees
    /\ site_packages \in SUBSET {"jsonschema"}
    /\ test_module = NotImported
    /\ outcomes = <<>>

\* pytest collects the module: it imports it
CollectModule ==
    /\ program = "test_ufcscrape"
    /\ test_module.state = "not_imported"
    /\ test_module' = ImportTestModule(tree, site_packages)
    /\ UNCHANGED <<program, tree, site_packages, outcomes, dirs_vars, env_vars,
                   call_vars>>

\* pytest runs the next test of the class
RunTest ==
    /\ program = "test_ufcscrape"
    /\ test_module.state = "imported"
    /\ Len(outcomes) < Len(TestNames)
    /\ LET name == TestNames[Len(outcomes) + 1] IN
       \E report \in {RunTestFunction(name, test_module, tree)} :
           outcomes' = Append(outcomes, [test |-> name,
                                         outcome |-> report.outcome,
                                         exc |-> report.exc,
                                         msg |-> report.msg])
    /\ UNCHANGED <<program, tree, site_packages, test_module, dirs_vars,
                   env_vars, call_vars>>

NextContract == CollectModule \/ RunTest

\* C9: the schema document the contract tests load is the one at
\* specs/001-setup-tasks-set/contracts/ufcscrape.json below the project
\* root, inside the contracts directory the directory initializer creates:
\* the path the module reads lies in that directory, and a document lying
\* there is the schema the imported module holds.
C9_SchemaIsLoadedFromTheProjectContractsDirectory ==
    test_module.state = "imported" =>
        /\ CONTRACT_PATH = DocumentedContractPath
        /\ Parent(CONTRACT_PATH) \in Range(directory_structure)
        /\ (/\ FileExists(tree, DocumentedContractPath)
            /\ tree[DocumentedContractPath].kind = "json")
           => test_module.CONTRACT_SCHEMA
                  = tree[DocumentedContractPath].value

\* C10: when the schema file is not found, importing the test module fails
\* instead of going on with an unset schema, and every test ends as a
\* failure that reports the missing schema, never as a pass or a skip.
C10_MissingSchemaIsAHardFailure ==
    (program = "test_ufcscrape" /\ ~FileExists(tree, CONTRACT_PATH)) =>
        /\ test_module.state # "imported"
        /\ \A k \in DOMAIN outcomes :
               /\ outcomes[k].outcome = "failed"
               /\ outcomes[k].msg = "Contract schema not found"

\* the variables of the calls while a program runs: no object, no call yet
NoReceiver == [class |-> "none"]
NoCall == [function |-> "none"]
NoReply == [state |-> "not_called"]

(***************************************************************************)
(* Calls of validate(instance, schema) with the schemas of the contract    *)
(* document, as the tests make them (lines 81, 161, 195, 224, 252): the    *)
(* module is imported with the contract document in place, and a candidate *)
(* record is validated against one of the document's schemas.              *)
(***************************************************************************)
\* how far beyond the limits of the schema the candidate numbers go
Margin == 2

\* lines 81, 161, 192-193, 221-222, 249-250: the schema a test passes
SchemaAt(document, name) ==
    LET output_properties ==
            GetItem(GetItem(Value(document), "output"), "properties")
    IN CASE name = "input" -> GetItem(Value(document), "input")
         [] name = "output" -> GetItem(Value(document), "output")
         [] name = "output_files.items" ->
                GetItem(GetItem(output_properties, "output_files"), "items")
         [] name = "performance_metrics" ->
                GetItem(output_properties, "performance_metrics")
         [] name = "errors.items" ->
                GetItem(GetItem(output_properties, "errors"), "items")

\* validate(instance, schema): returns, or raises ValidationError, or the
\* expression that gives the schema raises
ValidateCall(instance, schema) ==
    IF schema.exc # NoException THEN [state |-> "raised", exc |-> schema.exc]
    ELSE IF IsValid(instance, schema.val)
         THEN [state |-> "returned", exc |-> NoException]
    ELSE [state |-> "raised", exc |-> "ValidationError"]

\* the members a record may have under one name: none, or one of the values
Optional(name, values) == {<<>>} \cup {name :> v : v \in values}

\* the records made of one choice of members per part
RECURSIVE Records(_)
Records(parts) ==
    IF parts = <<>> THEN {<<>>}
    ELSE {head @@ rest : head \in Head(parts), rest \in Records(Tail(parts))}

\* values of date_range: the ones of test_input_validation_date_range, and
\* others
DateRangeValues ==
    LET dates == {"2024-01-01", "2024-12-31", "invalid-date", "2024-1-1", ""} IN
    {JObj(start @@ end) :
        start \in Optional("start_date", {JStr(d) : d \in dates}),
        end \in Optional("end_date", {JStr(d) : d \in dates})}

\* the candidate requests: every combination of valid and invalid values of
\* the fields; and, in requests whose other fields are valid, every
\* batch_size and every delay_seconds around the limits and the values of
\* test_batch_size_constraints and test_delay_seconds_constraints, and
\* every date_range
CandidateRequests ==
    LET scrape_types ==
            {JStr("fighters"), JStr("bouts"), JStr("events"), JStr("all"),
             JStr("invalid_type"), JStr("Fighters"), JStr(""), JInt(1), None}
        batch_sizes ==
            {JInt(n) : n \in {1, 50, 500, 1000, 0, -1, 1001}} \cup {JNum(150)}
            \cup {JInt(n) : n \in (1 - Margin)..(1000 + Margin)}
        delays ==
            {JNum(h) : h \in {10, 100, 250, 500, 0, -10, 510}}
            \cup {JNum(h) : h \in (0 - Margin)..(500 + Margin)}
            \cup {JInt(n) : n \in (0 - Margin)..(5 + Margin)}
        plain ==
            {[scrape_type |-> JStr("fighters"), output_dir |-> JStr("/tmp/test")]
             @@ more :
                more \in Records(<<
                    Optional("batch_size", {JInt(50)}),
                    Optional("delay_seconds", {JNum(250)}),
                    Optional("date_range",
                             {JObj([start_date |-> JStr("2024-01-01"),
                                    end_date |-> JStr("2024-12-31")])})>>)}
    IN Records(<<Optional("scrape_type", scrape_types),
                 Optional("output_dir", {JStr("/tmp/test"), JInt(1)}),
                 Optional("batch_size", {JInt(1), JInt(0), JInt(1001)}),
                 Optional("delay_seconds", {JNum(500), JNum(0)}),
                 Optional("date_range",
                          {JObj([start_date |-> JStr("2024-01-01"),
                                 end_date |-> JStr("2024-12-31")]),
                           JObj([start_date |-> JStr("invalid-date"),
                                 end_date |-> JStr("2024-12-31")])})>>)
       \cup {("batch_size" :> v) @@ p : v \in batch_sizes, p \in plain}
       \cup {("delay_seconds" :> v) @@ p : v \in delays, p \in plain}
       \cup {("date_range" :> v) @@ p : v \in DateRangeValues, p \in plain}

\* the candidate items of output_files
CandidateFileItems ==
    Records(<<Optional("filename", {JStr("test.json"), JInt(1)}),
              Optional("file_path", {JStr("/tmp/test.json")}),
              Optional("record_count", {JInt(100), JInt(-1)}),
              Optional("file_size_bytes", {JInt(1024), JInt(0)})>>)

\* the candidate items of errors
CandidateErrorItems ==
    Records(<<Optional("error_type", {JStr("NetworkError"), JInt(1)}),
              Optional("error_message", {JStr("Connection timeout")}),
              Optional("timestamp",
                       {JStr("2024-01-01T12:00:00"), JStr("yesterday")})>>)

\* the candidate performance metrics
CandidateMetrics ==
    Records(<<Optional("duration_seconds", {JNum(12050), JNum(0), JNum(-100)}),
              Optional("requests_per_second", {JNum(180), JNum(-1)}),
              Optional("records_per_second", {JNum(90)})>>)

\* the candidate results
CandidateResults ==
    Records(<<Optional("success", {JBool(TRUE), JStr("yes")}),
              Optional("records_processed", {JInt(100), JInt(0), JInt(-1)}),
              Optional("output_files",
                       {JArr(<<>>), JArr(<<JObj([filename |-> JStr("test.json"),
                                     file_path |-> JStr("/tmp/test.json"),
                                     record_count |-> JInt(100),
                                     file_size_bytes |-> JInt(1024)])>>),
                        JArr(<<JObj([filename |-> JStr("test.json")])>>)}),
              Optional("performance_metrics",
                       {JObj([duration_seconds |-> JNum(6000),
                              requests_per_second |-> JNum(250),
                              records_per_second |-> JNum(167)]),
                        JObj([duration_seconds |-> JNum(-100)])}),
              Optional("errors", {JArr(<<>>)})>>)

ValidateCalls ==
    {[function |-> "validate", schema |-> name, instance |-> JObj(members)] :
        name \in {"input"}, members \in CandidateRequests}
    \cup {[function |-> "validate", schema |-> name, instance |-> JObj(members)] :
             name \in {"output"}, members \in CandidateResults}
    \cup {[function |-> "validate", schema |-> name, instance |-> JObj(members)] :
             name \in {"output_files.items"}, members \in CandidateFileItems}
    \cup {[function |-> "validate", schema |-> name, instance |-> JObj(members)] :
             name \in {"performance_metrics"}, members \in CandidateMetrics}
    \cup {[function |-> "validate", schema |-> name, instance |-> JObj(members)] :
             name \in {"errors.items"}, members \in CandidateErrorItems}

\* the call validate(instance, schema) is made
Validate ==
    /\ program = "validate"
    /\ reply.state = "not_called"
    /\ reply' = ValidateCall(called.instance,
                             SchemaAt(test_module.CONTRACT_SCHEMA, called.schema))
    /\ UNCHANGED <<program, dirs_vars, env_vars, contract_vars, receiver, called>>

(***************************************************************************)
(* validate: the claims.  What the data model says of the fields of a      *)
(* request is written down here apart from the schema.                     *)
(***************************************************************************)
\* the call has been made with a request and the schema of requests
RequestChecked == reply.state # "not_called" /\ called.schema = "input"

\* validate returned: the record is valid
Accepted == reply.state = "returned"

\* the well-formed calendar dates among DateStrings
IsIsoDate(s) == s \in {"2024-01-01", "2024-12-31"}

\* the field of the request with members m is as the data model wants it
FieldOk(m, name) ==
    CASE name = "scrape_type" ->
             /\ name \in DOMAIN m
             /\ m[name].t = "string"
             /\ m[name].s \in {"fighters", "bouts", "events", "all"}
      [] name = "output_dir" -> name \in DOMAIN m /\ m[name].t = "string"
      [] name = "batch_size" ->
             name \in DOMAIN m =>
                 /\ m[name].t = "integer"
                 /\ m[name].n >= 1 * 100
                 /\ m[name].n <= 1000 * 100
      [] name = "delay_seconds" ->
             name \in DOMAIN m =>
                 /\ IsNumber(m[name])
                 /\ m[name].n > 0
                 /\ m[name].n <= 500
      [] name = "date_range" ->
             name \in DOMAIN m =>
                 /\ m[name].t = "object"
                 /\ \A d \in DOMAIN m[name].o :
                        m[name].o[d].t = "string" /\ IsIsoDate(m[name].o[d].s)

RequestFields ==
    {"scrape_type", "output_dir", "batch_size", "delay_seconds", "date_range"}

\* every field of the request but the named one is as the data model wants it
OtherFieldsOk(m, name) == \A other \in RequestFields \ {name} : FieldOk(m, other)

\* C11: a request whose other fields are valid is valid for every integer
\* batch_size from 1 to 1000, both included, and invalid for every integer
\* batch_size below 1 or above 1000.
C11_BatchSizeValidFromOneToOneThousand ==
    LET m == called.instance.o IN
    (/\ RequestChecked
     /\ "batch_size" \in DOMAIN m
     /\ m["batch_size"].t = "integer"
     /\ OtherFieldsOk(m, "batch_size"))
    => (Accepted <=> (m["batch_size"].n >= 100 /\ m["batch_size"].n <= 100000))

\* C11 witness: a request with batch_size 1000 and a delay has been accepted,
\* and one with batch_size 1001 is what the call was made with
C11_Witness ==
    LET m == called.instance.o IN
    /\ RequestChecked
    /\ Accepted
    /\ "batch_size" \in DOMAIN m
    /\ m["batch_size"] = JInt(1000)
    /\ "delay_seconds" \in DOMAIN m
    /\ OtherFieldsOk(m, "batch_size")

\* C12: a request whose other fields are valid is valid for every
\* delay_seconds above 0.0 and up to 5.0, and invalid for 0.0, for every
\* negative value and for every value above 5.0.
C12_DelayValidAboveZeroUpToFive ==
    LET m == called.instance.o IN
    (/\ RequestChecked
     /\ "delay_seconds" \in DOMAIN m
     /\ IsNumber(m["delay_seconds"])
     /\ OtherFieldsOk(m, "delay_seconds"))
    => (Accepted <=> (m["delay_seconds"].n > 0 /\ m["delay_seconds"].n <= 500))

\* C12 witness: a request with delay_seconds 5.0 and a batch size has been
\* accepted
C12_Witness ==
    LET m == called.instance.o IN
    /\ RequestChecked
    /\ Accepted
    /\ "delay_seconds" \in DOMAIN m
    /\ m["delay_seconds"] = JNum(500)
    /\ "batch_size" \in DOMAIN m
    /\ OtherFieldsOk(m, "delay_seconds")

\* the fields without which a record of each kind is invalid
RequiredFields(schema) ==
    CASE schema = "input" -> {"scrape_type", "output_dir"}
      [] schema = "output" -> {"records_processed"}
      [] schema = "output_files.items" ->
             {"filename", "file_path", "record_count", "file_size_bytes"}
      [] schema = "errors.items" -> {"timestamp"}
      [] OTHER -> {}

\* C13: a record that lacks a required field fails validation, whatever its
\* other fields are: requests, results, output_files items and errors items.
C13_MissingRequiredFieldInvalidates ==
    (/\ reply.state # "not_called"
     /\ \E field \in RequiredFields(called.schema) :
            field \notin DOMAIN called.instance.o)
    => reply = [state |-> "raised", exc |-> "ValidationError"]

\* C13 witness: a request that lacks only output_dir, its other fields
\* valid, has been rejected
C13_Witness ==
    LET m == called.instance.o IN
    /\ RequestChecked
    /\ reply = [state |-> "raised", exc |-> "ValidationError"]
    /\ "output_dir" \notin DOMAIN m
    /\ OtherFieldsOk(m, "output_dir")
    /\ "batch_size" \in DOMAIN m

\* the scrape types of the data model
ScrapeTypes == {JStr("fighters"), JStr("bouts"), JStr("events"), JStr("all")}

\* C14: a request with an output_dir and valid other fields validates for
\* each scrape_type among fighters, bouts, events and all; a request with
\* any other scrape_type fails validation whatever its other fields are.
C14_ScrapeTypeIsOneOfTheFour ==
    LET m == called.instance.o IN
    (RequestChecked /\ "scrape_type" \in DOMAIN m)
    => /\ (m["scrape_type"] \in ScrapeTypes /\ OtherFieldsOk(m, "scrape_type"))
          => Accepted
       /\ m["scrape_type"] \notin ScrapeTypes
          => reply = [state |-> "raised", exc |-> "ValidationError"]

\* C14 witness: a request of scrape type "all" with an output_dir has been
\* accepted
C14_Witness ==
    LET m == called.instance.o IN
    /\ RequestChecked
    /\ Accepted
    /\ "scrape_type" \in DOMAIN m
    /\ m["scrape_type"] = JStr("all")
    /\ "output_dir" \in DOMAIN m

\* the request has a date_range whose start_date is a string
HasStartDate(m) ==
    /\ "date_range" \in DOMAIN m
    /\ m["date_range"].t = "object"
    /\ "start_date" \in DOMAIN m["date_range"].o
    /\ m["date_range"].o["start_date"].t = "string"

\* C15: a request whose date_range holds well-formed dates validates, and
\* a request whose start_date is a malformed date string fails validation,
\* whatever its end_date is.
C15_MalformedStartDateFailsValidation ==
    LET m == called.instance.o IN
    (RequestChecked /\ HasStartDate(m))
    => /\ (\A other \in RequestFields : FieldOk(m, other)) => Accepted
       /\ ~IsIsoDate(m["date_range"].o["start_date"].s)
          => reply = [state |-> "raised", exc |-> "ValidationError"]

(***************************************************************************)
(* environment.py: validate_dependencies called with a list of the         *)
(* caller's, on a machine where each import name is found, is not found,   *)
(* or makes find_spec raise.                                               *)
(***************************************************************************)
\* the longest list of packages a caller passes
MaxPackages == 2

\* the lists of at most n package names a caller may ask for: one that is
\* its own import name, one that _get_import_name maps to another, one that
\* no machine has
RECURSIVE PackageLists(_)
PackageLists(n) ==
    IF n = 0 THEN {<<>>}
    ELSE LET shorter == PackageLists(n - 1) IN
         shorter \cup {Append(list, name) :
                          list \in shorter,
                          name \in {"torch", "opencv-python", "nosuchpackage"}}

\* the machines: what find_spec does for torch and for cv2
PackageHosts ==
    {[HealthyHost EXCEPT !.find_spec["torch"] = torch, !.find_spec["cv2"] = cv2] :
        torch \in {"found", "none", "raise"}, cv2 \in {"found", "none", "raise"}}

\* validator.validate_dependencies(required_packages, format) is called
ValidateDependencies ==
    /\ program = "validate_dependencies"
    /\ reply.state = "not_called"
    /\ \E r \in {validate_dependencies(called.required_packages, host,
                                       called.format)} :
          reply' = [state |-> IF r.exc = NoException THEN "returned" ELSE "raised",
                    exc |-> r.exc,
                    ret |-> r.ret]
    /\ UNCHANGED <<program, dirs_vars, env_vars, contract_vars, receiver, called>>

\* the packages of the list that find_spec finds on the machine, and the
\* others, each in the order of the list
FoundOn(h, list) ==
    SelectSeq(list, LAMBDA package :
                        DictGet(h.find_spec, get_import_name(package), "none") = "found")
NotFoundOn(h, list) ==
    SelectSeq(list, LAMBDA package :
                        DictGet(h.find_spec, get_import_name(package), "none") # "found")

\* C18: for every list of required package names, the empty list included,
\* validate_dependencies returns a record in which installed and missing
\* partition the list in input order and installed_count + missing_count =
\* total_packages, a package whose lookup raises being counted as missing.
C18_InstalledAndMissingPartitionTheList ==
    (called.function = "validate_dependencies" /\ reply.state # "not_called")
    => /\ reply.state = "returned"
       /\ LET record == RecordOf(reply.ret)
              list == called.required_packages
          IN /\ record.installed = FoundOn(host, list)
             /\ record.missing = NotFoundOn(host, list)
             /\ record.total_packages = Len(list)
             /\ record.installed_count + record.missing_count = record.total_packages

(***************************************************************************)
(* init_dirs.py: a caller that keeps its DirectoryInitializer.  The class  *)
(* is importable, and nothing makes a caller construct a new instance for  *)
(* each call as main does: created_dirs and errors are set in __init__     *)
(* (lines 33-34) and only appended to afterwards.                          *)
(***************************************************************************)
\* the most calls of create_directory_structure a caller makes
MaxCalls == 2

\* __init__: DirectoryInitializer(base_dir, force) takes the place of the
\* instance the caller held
Construct(force) ==
    /\ program = "init_dirs_calls"
    /\ called.function # "__init__"
    /\ called.number < MaxCalls
    /\ receiver' = [class |-> "DirectoryInitializer",
                    self |-> DirectoryInitializer(force)]
    /\ called' = [function |-> "__init__", number |-> called.number,
                  on_instance |-> 0]
    /\ UNCHANGED <<program, dirs_vars, env_vars, contract_vars, reply>>

\* initializer.create_directory_structure() on the instance the caller
\* holds; the reply keeps what the call found, the directories it
\* appended to created_dirs and what the call before it returned
CreateDirectoryStructure ==
    /\ program = "init_dirs_calls"
    /\ receiver.class = "DirectoryInitializer"
    /\ called.number < MaxCalls
    /\ \E op \in {create_directory_structure(receiver.self, fs, faults)} :
          /\ fs' = op.fs
          /\ receiver' = [receiver EXCEPT !.self = op.self]
          /\ results' = op.results
          /\ call_log' = [calls |-> op.calls, raised |-> op.raised,
                          removed |-> op.removed]
          /\ called' = [function |-> "create_directory_structure",
                        number |-> called.number + 1,
                        on_instance |-> called.on_instance + 1]
          /\ reply' = [state |-> "returned",
                       results |-> op.results,
                       force |-> receiver.self.force,
                       fs_before |-> fs,
                       created |-> SubSeq(op.self.created_dirs,
                                          Len(receiver.self.created_dirs) + 1,
                                          Len(op.self.created_dirs)),
                       earlier |-> IF reply.state = "returned"
                                   THEN [state |-> "returned",
                                         results |-> reply.results,
                                         force |-> reply.force]
                                   ELSE NoReply]
    /\ UNCHANGED <<program, faults, args, exit_code, env_vars, contract_vars>>

NextReuse == CreateDirectoryStructure \/ \E force \in BOOLEAN : Construct(force)

\* C19: after a run of create_directory_structure without --force that
\* completed without errors, a run without --force by a fresh
\* DirectoryInitializer reports total_created = 0 and total_errors = 0 and
\* leaves the filesystem as it was; and a second call on the same instance
\* reports only the directories that call created.
C19_SecondRunCreatesNothingAndReportsItsOwn ==
    reply.state = "returned" =>
        /\ (/\ called.on_instance = 1
            /\ ~reply.force
            /\ reply.earlier.state = "returned"
            /\ ~reply.earlier.force
            /\ reply.earlier.results.total_errors = 0)
           => /\ reply.results.total_created = 0
              /\ reply.results.total_errors = 0
              /\ fs = reply.fs_before
        /\ called.on_instance > 1
           => /\ reply.results.created_directories = reply.created
              /\ reply.results.total_created = Len(reply.created)

(***************************************************************************)
(* The specifications: one program per behaviour.                          *)
(***************************************************************************)
\* the variables of init_dirs while another program runs
IdleDirs ==
    /\ fs = FreshFilesystem
    /\ faults = {}
    /\ args = NoArgs
    /\ results = NoResults
    /\ call_log = [calls |-> <<>>, raised |-> {}, removed |-> {}]
    /\ exit_code = -1

\* the variables of environment while another program runs
IdleEnv ==
    /\ host = HealthyHost
    /\ env_args = NoEnvArgs
    /\ env_results = <<>>
    /\ env_log = <<>>
    /\ env_exit = -1

\* the variables of the contract tests while another program runs
IdleContract ==
    /\ tree = EmptyTree
    /\ site_packages = {}
    /\ test_module = NotImported
    /\ outcomes = <<>>

IdleCalls ==
    /\ receiver = NoReceiver
    /\ called = NoCall
    /\ reply = NoReply

\* a run of init_dirs.py starts
DirsInit ==
    program = "init_dirs" /\ InitDirs /\ IdleEnv /\ IdleContract /\ IdleCalls

\* a run of environment.py starts
EnvInit ==
    program = "environment" /\ IdleDirs /\ InitEnv /\ IdleContract /\ IdleCalls

\* a pytest session over test_ufcscrape.py starts
ContractInit ==
    program = "test_ufcscrape" /\ IdleDirs /\ IdleEnv /\ InitContract
        /\ IdleCalls

\* a call of validate is about to be made: the module has been imported
\* with jsonschema installed and the contract document where it reads it
ValidateInit ==
    LET files == CONTRACT_PATH :> JsonFile(ContractDocument) IN
    /\ program = "validate" /\ IdleDirs /\ IdleEnv
    /\ tree = files
    /\ site_packages = {"jsonschema"}
    /\ test_module = ImportTestModule(files, {"jsonschema"})
    /\ outcomes = <<>>
    /\ receiver = NoReceiver
    /\ called \in ValidateCalls
    /\ reply = NoReply

\* a caller is about to construct a DirectoryInitializer
ReuseInit ==
    /\ program = "init_dirs_calls" /\ InitDirs /\ IdleEnv /\ IdleContract
    /\ receiver = NoReceiver
    /\ called = [function |-> "none", number |-> 0, on_instance |-> 0]
    /\ reply = NoReply

\* a call of validate_dependencies is about to be made on some machine
DependenciesInit ==
    /\ program = "validate_dependencies" /\ IdleDirs /\ IdleContract
    /\ host \in PackageHosts
    /\ env_args = NoEnvArgs
    /\ env_results = <<>>
    /\ env_log = <<>>
    /\ env_exit = -1
    /\ receiver = [class |-> "EnvironmentValidator"]
    /\ called \in {[function |-> "validate_dependencies",
                    required_packages |-> list, format |-> format] :
                      list \in PackageLists(MaxPackages),
                      format \in {"dict", "json"}}
    /\ reply = NoReply

SpecDirs == DirsInit /\ [][NextDirs]_vars

SpecEnv == EnvInit /\ [][NextEnv]_vars

SpecContract == ContractInit /\ [][NextContract]_vars

SpecValidate == ValidateInit /\ [][Validate]_vars

SpecDependencies == DependenciesInit /\ [][ValidateDependencies]_vars

SpecReuse == ReuseInit /\ [][NextReuse]_vars

Init ==
    \/ DirsInit \/ EnvInit \/ ContractInit
    \/ ValidateInit \/ DependenciesInit \/ ReuseInit

Next ==
    \/ NextDirs \/ NextEnv \/ NextContract
    \/ Validate \/ ValidateDependencies \/ NextReuse

Spec == Init /\ [][Next]_vars

====
